---------------------------- MODULE Spec2Model ----------------------------
(***************************************************************************)
(* College event application: registration with capacity accounting, the  *)
(* QR credential text and its parser, and the attendance check-in.        *)
(*                                                                         *)
(* Requests are handled by workers that share only the database.  Every   *)
(* execute_query call opens its own connection, runs one statement and    *)
(* commits, so a request is a sequence of atomic statements and requests  *)
(* of different workers interleave between statements.                    *)
(*                                                                         *)
(* Text is a sequence of tokens.  A token is a separator (":", newline,   *)
(* blank) or a run of other characters; the code under study never looks  *)
(* inside such a run (it splits on newline and colon, strips whitespace   *)
(* and compares whole keys).                                               *)
(***************************************************************************)
EXTENDS Integers, Sequences, FiniteSets, Bags, TLC

NL == "\n"
SP == " "
COLON == ":"

\* str.strip() removes these from both ends
IsSpace(c) == c \in {SP, NL}

RECURSIVE LStrip(_)
LStrip(s) == IF s = <<>> THEN s
             ELSE IF IsSpace(Head(s)) THEN LStrip(Tail(s)) ELSE s

RECURSIVE RStrip(_)
RStrip(s) == IF s = <<>> THEN s
             ELSE IF IsSpace(s[Len(s)]) THEN RStrip(SubSeq(s, 1, Len(s) - 1)) ELSE s

Strip(s) == RStrip(LStrip(s))

Contains(s, c) == \E i \in 1..Len(s) : s[i] = c

\* index of the first occurrence of c in s (c occurs in s)
FirstIndex(s, c) == CHOOSE i \in 1..Len(s) : s[i] = c /\ \A j \in 1..(i - 1) : s[j] # c

\* str.split(sep): the pieces between the occurrences of sep
RECURSIVE Split(_, _)
Split(s, sep) == IF ~Contains(s, sep) THEN <<s>>
                 ELSE LET i == FirstIndex(s, sep)
                      IN  <<SubSeq(s, 1, i - 1)>> \o Split(SubSeq(s, i + 1, Len(s)), sep)

\* line.split(':', 1): key before the first colon, value after it
SplitKVMutLastColon(line) ==
    LET i == CHOOSE k \in 1..Len(line) :
                 line[k] = COLON /\ \A j \in (k + 1)..Len(line) : line[j] # COLON
    IN  <<SubSeq(line, 1, i - 1), SubSeq(line, i + 1, Len(line))>>
SplitKV(line) ==
    LET i == FirstIndex(line, COLON)
    IN  <<SubSeq(line, 1, i - 1), SubSeq(line, i + 1, Len(line))>>

EmptyDict == [k \in {} |-> <<>>]

DictPut(d, k, v) == [x \in DOMAIN d \cup {k} |-> IF x = k THEN v ELSE d[x]]

DictGet(d, k, default) == IF k \in DOMAIN d THEN d[k] ELSE default

\* the loop over the lines of the credential text
RECURSIVE ParseLines(_, _)
ParseLines(lines, d) ==
    IF lines = <<>> THEN d
    ELSE LET line == Head(lines)
         IN  IF Contains(line, COLON)
             THEN LET kv == SplitKV(line)
                  IN  ParseLines(Tail(lines), DictPut(d, Strip(kv[1]), Strip(kv[2])))
             ELSE ParseLines(Tail(lines), d)

KeyEvent == <<"Event">>
KeyStudent == <<"Student">>
KeyStudentID == <<"Student", SP, "ID">>
KeyEventDate == <<"Event", SP, "Date">>
KeyEventTime == <<"Event", SP, "Time">>
KeyVenue == <<"Venue">>
KeyRegistrationID == <<"Registration", SP, "ID">>

\* qr_dict of the verification handlers
ParseQR(qr_data) == ParseLines(Split(Strip(qr_data), NL), EmptyDict)

\* the values the handlers read from qr_dict
QREventTitle(qr_data) == DictGet(ParseQR(qr_data), KeyEvent, <<>>)
QRStudentId(qr_data) == DictGet(ParseQR(qr_data), KeyStudentID, <<>>)

\* a DATE and a TIME column as the f-string renders them
DateText == <<"2025-01-01">>
TimeText == <<"10", COLON, "00", COLON, "00">>

IdText(n) == <<ToString(n)>>

\* qr_data of register_event
BuildQR(event, student, event_id) ==
    Strip(<<NL>>
          \o KeyEvent \o <<COLON, SP>> \o event.title \o <<NL>>
          \o KeyStudent \o <<COLON, SP>> \o student.name \o <<NL>>
          \o KeyStudentID \o <<COLON, SP>> \o student.student_id \o <<NL>>
          \o KeyEventDate \o <<COLON, SP>> \o DateText \o <<NL>>
          \o KeyEventTime \o <<COLON, SP>> \o TimeText \o <<NL>>
          \o KeyVenue \o <<COLON, SP>> \o event.venue \o <<NL>>
          \o KeyRegistrationID \o <<COLON, SP>> \o student.student_id \o <<"_">> \o IdText(event_id)
          \o <<NL, SP, SP, SP, SP, SP, SP, SP, SP>>)

(***************************************************************************)
(* Bounds of the model                                                     *)
(***************************************************************************)
\* concurrent request workers
NWorkers == 2
\* rows the events id sequence hands out
MaxEvents == 2
\* largest capacity an administrator enters
MaxCapacity == 2
\* seconds the wall clock advances
MaxTime == 1
\* longest title and student identifier of the credential round trip
MaxFieldLen == 2
MaxConnections == 2
MaxLines == 3

Workers == 1..NWorkers

Min(S) == CHOOSE x \in S : \A y \in S : x <= y

None == <<>>
Some(v) == <<v>>

VARIABLES
    students,        \* table students: id -> row
    events,          \* table events: id -> row, for the ids that exist
    next_event_id,   \* the SERIAL sequence of events.id
    registrations,   \* table registrations: a bag of rows
    now,             \* datetime.now(), in seconds
    faults,          \* the database or the QR encoder may fail
    REPORTLAB_AVAILABLE,   \* the import of reportlab succeeded
    open_connections,      \* database connections opened and not yet closed
    db_initialised,        \* check_and_init_database has committed the tables
    pc,              \* per worker: the statement its request executes next
    req,             \* per worker: route, session and request data
    loc,             \* per worker: the handler's local variables still read
    resp             \* per worker: the response of the returned handler

store == <<students, events, next_event_id, registrations>>
env == <<faults, REPORTLAB_AVAILABLE, open_connections, db_initialised>>
vars == <<students, events, next_event_id, registrations, now, faults, REPORTLAB_AVAILABLE,
          open_connections, db_initialised, pc, req, loc, resp>>

(***************************************************************************)
(* Input domains                                                           *)
(***************************************************************************)
TitleTechTalk == <<"Tech", SP, "Talk">>
TitleAIIntro == <<"AI", COLON, SP, "Intro">>
Titles == {TitleTechTalk, TitleAIIntro}
Venues == {<<"Hall">>}
Capacities == 0..MaxCapacity
EventIdArgs == 1..MaxEvents

StudentAnn == [id |-> 1, student_id |-> <<"S100">>, name |-> <<"Ann">>]
StudentBob == [id |-> 2, student_id |-> <<"S200">>, name |-> <<"Bob">>]
StudentRows == [i \in {1, 2} |-> IF i = 1 THEN StudentAnn ELSE StudentBob]
UnknownStudentId == <<"S999">>
UnknownTitle == <<"Gala">>

NoSession == [student_id |-> None, staff_id |-> None, admin_id |-> None]
StudentSession(s) == [NoSession EXCEPT !.student_id = Some(s)]
StaffSession == [NoSession EXCEPT !.staff_id = Some(1)]
AdminSession == [NoSession EXCEPT !.admin_id = Some(1)]
\* sessions come from the login routes: a student session holds the id of a stored student
Sessions == {NoSession, StaffSession, AdminSession} \cup {StudentSession(s) : s \in DOMAIN students}

\* a credential typed by hand with the two required lines only
ManualQR(title, sid) ==
    KeyEvent \o <<COLON, SP>> \o title \o <<NL>> \o KeyStudentID \o <<COLON, SP>> \o sid \o <<NL>>

ManualTexts ==
    { <<>>,
      KeyEvent \o <<COLON, SP>> \o TitleTechTalk \o <<NL>>,
      ManualQR(<<SP>>, StudentAnn.student_id),
      ManualQR(UnknownTitle, UnknownStudentId),
      ManualQR(UnknownTitle, StudentAnn.student_id),
      ManualQR(TitleTechTalk, UnknownStudentId),
      ManualQR(TitleTechTalk, StudentAnn.student_id) }

\* what a scanner or a form can send: an issued credential or typed text
QRInputs(typed) == {r.qr_code_path : r \in BagToSet(registrations)} \cup typed

\* get_db_connection(): a connection, or None while the database is unreachable
Connect == IF faults THEN {TRUE, FALSE} ELSE {TRUE}

\* qrcode raises (encoder or image library failure)
QRRaises == IF faults THEN {FALSE, TRUE} ELSE {FALSE}

(***************************************************************************)
(* SQL statements                                                          *)
(***************************************************************************)
\* SELECT * FROM events WHERE id = %s, fetchone
SelectEventById(event_id) ==
    IF event_id \in DOMAIN events THEN Some(events[event_id]) ELSE None

\* SELECT * FROM events WHERE title = %s: the rows fetchone may return
EventsByTitle(title) == {events[i] : i \in {j \in DOMAIN events : events[j].title = title}}

\* SELECT * FROM students WHERE id = %s, fetchone
SelectStudentById(id) ==
    IF id \in DOMAIN students THEN Some(students[id]) ELSE None

\* SELECT * FROM students WHERE student_id = %s, fetchone (student_id is UNIQUE)
SelectStudentByStudentId(sid) ==
    LET found == {i \in DOMAIN students : students[i].student_id = sid}
    IN  IF found = {} THEN None ELSE Some(students[CHOOSE i \in found : TRUE])

RegRows(student, event_id) ==
    {r \in BagToSet(registrations) : r.student_id = student /\ r.event_id = event_id}

\* number of rows of the pair, counted with multiplicity
RegCount(student, event_id) ==
    BagCardinality([r \in RegRows(student, event_id) |-> registrations[r]])

\* number of rows that reference the event
EventRegCount(event_id) ==
    BagCardinality([r \in {x \in BagToSet(registrations) : x.event_id = event_id}
                      |-> registrations[r]])

\* SELECT * FROM registrations WHERE student_id = %s AND event_id = %s, fetchone
SelectRegistration(student, event_id) ==
    IF RegRows(student, event_id) = {} THEN None
    ELSE Some(CHOOSE r \in RegRows(student, event_id) : TRUE)

NewRegistration(student, event_id, qr) ==
    [student_id |-> student, event_id |-> event_id, qr_code_path |-> qr,
     checkin_time |-> None, attended |-> FALSE]

\* INSERT INTO registrations: UNIQUE(student_id, event_id) and the two foreign
\* keys reject the row; execute_query swallows the error
InsertMutNoUnique(student, event_id, qr) ==
    IF student \in DOMAIN students /\ event_id \in DOMAIN events
    THEN registrations (+) SetToBag({NewRegistration(student, event_id, qr)})
    ELSE registrations
InsertRegistration(student, event_id, qr) ==
    IF /\ student \in DOMAIN students
       /\ event_id \in DOMAIN events
       /\ RegRows(student, event_id) = {}
    THEN registrations (+) SetToBag({NewRegistration(student, event_id, qr)})
    ELSE registrations

\* UPDATE events SET registered_count = registered_count + 1 WHERE id = %s
IncrementRegistered(event_id) ==
    IF event_id \in DOMAIN events
    THEN [events EXCEPT ![event_id].registered_count = @ + 1]
    ELSE events

\* UPDATE registrations SET attended = .., checkin_time = .. WHERE student_id = %s AND event_id = %s
SetAttendanceMutFlagOnly(student, event_id, attended, checkin_time) ==
    BagOfAll(LAMBDA r : IF r.student_id = student /\ r.event_id = event_id
                        THEN [r EXCEPT !.attended = attended]
                        ELSE r,
             registrations)
SetAttendance(student, event_id, attended, checkin_time) ==
    BagOfAll(LAMBDA r : IF r.student_id = student /\ r.event_id = event_id
                        THEN [r EXCEPT !.attended = attended, !.checkin_time = checkin_time]
                        ELSE r,
             registrations)

\* DELETE FROM events WHERE id = %s, with ON DELETE CASCADE of registrations.event_id
DeleteEventRows(event_id) ==
    [i \in DOMAIN events \ {event_id} |-> events[i]]
DeleteRegistrationsOfMutNoCascade(event_id) == registrations
DeleteRegistrationsOf(event_id) ==
    [r \in {x \in BagToSet(registrations) : x.event_id # event_id} |-> registrations[r]]

(***************************************************************************)
(* Workers                                                                 *)
(***************************************************************************)
Idle == [route |-> "none"]
NoLocals == [none |-> TRUE]
NoResponse == [none |-> TRUE]

\* a response: the flashed or returned message
Response(success, message) == [success |-> success, message |-> message]

\* the handler returns
Return(p, response) ==
    /\ pc' = [pc EXCEPT ![p] = "done"]
    /\ resp' = [resp EXCEPT ![p] = response]
    /\ loc' = [loc EXCEPT ![p] = NoLocals]

Goto(p, label, locals) ==
    /\ pc' = [pc EXCEPT ![p] = label]
    /\ loc' = [loc EXCEPT ![p] = locals]
    /\ resp' = resp

\* the database after check_and_init_database and the sign-up of two students
EmptyStore ==
    /\ students = StudentRows
    /\ events = [i \in {} |-> None]
    /\ next_event_id = 1
    /\ registrations = EmptyBag

\* the application has started: the tables exist and no connection is open
Started ==
    /\ open_connections = 0
    /\ db_initialised = TRUE

\* the workers of the deployment that serve requests; the others are not started
WorkersInit(active) ==
    /\ pc = [p \in Workers |-> IF p \in active THEN "idle" ELSE "off"]
    /\ req = [p \in Workers |-> Idle]
    /\ loc = [p \in Workers |-> NoLocals]
    /\ resp = [p \in Workers |-> NoResponse]

\* one worker: requests are served one after the other
Init ==
    /\ EmptyStore
    /\ now = 0
    /\ faults = FALSE
    /\ REPORTLAB_AVAILABLE = TRUE
    /\ Started
    /\ WorkersInit({Min(Workers)})

\* the client has the response; the worker takes the next request
Respond(p) ==
    /\ pc[p] = "done"
    /\ pc' = [pc EXCEPT ![p] = "idle"]
    /\ req' = [req EXCEPT ![p] = Idle]
    /\ loc' = [loc EXCEPT ![p] = NoLocals]
    /\ resp' = [resp EXCEPT ![p] = NoResponse]
    /\ UNCHANGED <<store, now, env>>

Tick ==
    /\ now < MaxTime
    /\ now' = now + 1
    /\ UNCHANGED <<store, env, pc, req, loc, resp>>

(***************************************************************************)
(* register_event                                                          *)
(***************************************************************************)
MsgEventNotFound == "Event not found!"
MsgEventFull == "Event is full!"
MsgAlreadyRegistered == "You are already registered for this event!"
MsgStudentNotFound == "Student not found!"
MsgRegistered == "Successfully registered for the event! QR code generated."
MsgQRError == "Error generating QR code. Please try again."
MsgLogin == "redirect: login"

\* the capacity test of register_event
EventIsFullMutOffByOne(event) == event.registered_count > event.capacity
EventIsFull(event) == event.registered_count >= event.capacity

\* session check, SELECT of the event, capacity test
RegisterEvent_SelectEvent(p) ==
    /\ pc[p] = "idle"
    /\ \E session \in Sessions :
        IF session.student_id = None
        THEN /\ req' = [req EXCEPT ![p] = [route |-> "register_event", session |-> session]]
             /\ Return(p, Response(FALSE, MsgLogin))
        ELSE \E event_id \in EventIdArgs, conn \in Connect :
             /\ req' = [req EXCEPT ![p] = [route |-> "register_event", session |-> session,
                                           event_id |-> event_id]]
             /\ LET event == IF conn THEN SelectEventById(event_id) ELSE None
                IN  IF event = None
                    THEN Return(p, Response(FALSE, MsgEventNotFound))
                    ELSE IF EventIsFull(event[1])
                         THEN Return(p, Response(FALSE, MsgEventFull))
                         ELSE Goto(p, "re_select_registration", [event |-> event[1]])
    /\ UNCHANGED <<store, now, env>>

\* SELECT of the existing registration
RegisterEvent_SelectRegistration(p) ==
    /\ pc[p] = "re_select_registration"
    /\ \E conn \in Connect :
       LET existing_registration ==
               IF conn THEN SelectRegistration(req[p].session.student_id[1], req[p].event_id)
               ELSE None
       IN  IF existing_registration # None
           THEN Return(p, Response(FALSE, MsgAlreadyRegistered))
           ELSE Goto(p, "re_select_student", loc[p])
    /\ UNCHANGED <<store, now, env, req>>

\* SELECT of the student, then the QR code is built; qrcode may raise
RegisterEvent_SelectStudentMutInsertFirst(p) ==
    /\ pc[p] = "re_select_student"
    /\ \E conn \in Connect :
       LET student == IF conn THEN SelectStudentById(req[p].session.student_id[1]) ELSE None
       IN  IF student = None
           THEN /\ Return(p, Response(FALSE, MsgStudentNotFound))
                /\ UNCHANGED registrations
           ELSE /\ registrations' =
                       InsertRegistration(req[p].session.student_id[1], req[p].event_id,
                                          BuildQR(loc[p].event, student[1], req[p].event_id))
                /\ \E qr_raises \in QRRaises :
                      IF qr_raises
                      THEN Return(p, Response(FALSE, MsgQRError))
                      ELSE Goto(p, "re_insert",
                                [qr_web_path |-> BuildQR(loc[p].event, student[1], req[p].event_id)])
    /\ UNCHANGED <<students, events, next_event_id, now, env, req>>
RegisterEvent_SelectStudent(p) ==
    /\ pc[p] = "re_select_student"
    /\ \E conn \in Connect :
       LET student == IF conn THEN SelectStudentById(req[p].session.student_id[1]) ELSE None
       IN  IF student = None
           THEN Return(p, Response(FALSE, MsgStudentNotFound))
           ELSE \E qr_raises \in QRRaises :
                  IF qr_raises
                  THEN Return(p, Response(FALSE, MsgQRError))
                  ELSE Goto(p, "re_insert",
                            [qr_web_path |-> BuildQR(loc[p].event, student[1], req[p].event_id)])
    /\ UNCHANGED <<store, now, env, req>>

\* INSERT of the registration; execute_query returns None on any error
RegisterEvent_Insert(p) ==
    /\ pc[p] = "re_insert"
    /\ \E conn \in Connect :
       registrations' =
           IF conn
           THEN InsertRegistration(req[p].session.student_id[1], req[p].event_id,
                                   loc[p].qr_web_path)
           ELSE registrations
    /\ Goto(p, "re_update_count", NoLocals)
    /\ UNCHANGED <<students, events, next_event_id, now, env, req>>

\* UPDATE of registered_count, flash and redirect
RegisterEvent_UpdateCount(p) ==
    /\ pc[p] = "re_update_count"
    /\ \E conn \in Connect :
       events' = IF conn THEN IncrementRegistered(req[p].event_id) ELSE events
    /\ Return(p, Response(TRUE, MsgRegistered))
    /\ UNCHANGED <<students, next_event_id, registrations, now, env, req>>

register_event(p) ==
    \/ RegisterEvent_SelectEvent(p)
    \/ RegisterEvent_SelectRegistration(p)
    \/ RegisterEvent_SelectStudent(p)
    \/ RegisterEvent_Insert(p)
    \/ RegisterEvent_UpdateCount(p)

(***************************************************************************)
(* create_event, edit_event, delete_event                                  *)
(***************************************************************************)
MsgAdminLogin == "redirect: admin_login"
MsgForm == "render: form"
MsgEventCreated == "Event created successfully!"
MsgEventUpdated == "Event updated successfully!"
MsgEventDeleted == "Event deleted successfully!"

NewEvent(id, title, venue, capacity) ==
    [id |-> id, title |-> title, venue |-> venue, capacity |-> capacity,
     registered_count |-> 0]

\* one INSERT; the id sequence is capped at MaxEvents
create_event(p, titles, capacities) ==
    /\ pc[p] = "idle"
    /\ \E session \in Sessions :
        IF session.admin_id = None
        THEN /\ req' = [req EXCEPT ![p] = [route |-> "create_event", session |-> session]]
             /\ Return(p, Response(FALSE, MsgAdminLogin))
             /\ UNCHANGED <<events, next_event_id>>
        ELSE \/ /\ req' = [req EXCEPT ![p] = [route |-> "create_event", session |-> session,
                                              method |-> "GET"]]
                /\ Return(p, Response(TRUE, MsgForm))
                /\ UNCHANGED <<events, next_event_id>>
             \/ \E title \in titles, venue \in Venues, capacity \in capacities :
                /\ next_event_id <= MaxEvents
                /\ req' = [req EXCEPT ![p] = [route |-> "create_event", session |-> session,
                                              method |-> "POST", title |-> title,
                                              venue |-> venue, capacity |-> capacity]]
                /\ \E conn \in Connect :
                     IF conn
                     THEN /\ events' = [i \in DOMAIN events \cup {next_event_id} |->
                                          IF i = next_event_id
                                          THEN NewEvent(i, title, venue, capacity)
                                          ELSE events[i]]
                          /\ next_event_id' = next_event_id + 1
                     ELSE UNCHANGED <<events, next_event_id>>
                /\ Return(p, Response(TRUE, MsgEventCreated))
    /\ UNCHANGED <<students, registrations, now, env>>

EditEvent_SelectEvent(p, titles, capacities) ==
    /\ pc[p] = "idle"
    /\ \E session \in Sessions :
        IF session.admin_id = None
        THEN /\ req' = [req EXCEPT ![p] = [route |-> "edit_event", session |-> session]]
             /\ Return(p, Response(FALSE, MsgAdminLogin))
        ELSE \E event_id \in EventIdArgs, conn \in Connect :
             LET event == IF conn THEN SelectEventById(event_id) ELSE None
             IN  IF event = None
                 THEN /\ req' = [req EXCEPT ![p] = [route |-> "edit_event",
                                                    session |-> session,
                                                    event_id |-> event_id]]
                      /\ Return(p, Response(FALSE, MsgEventNotFound))
                 ELSE \/ /\ req' = [req EXCEPT ![p] = [route |-> "edit_event",
                                                       session |-> session,
                                                       event_id |-> event_id,
                                                       method |-> "GET"]]
                         /\ Return(p, Response(TRUE, MsgForm))
                      \/ \E title \in titles, venue \in Venues, capacity \in capacities :
                         /\ req' = [req EXCEPT ![p] = [route |-> "edit_event",
                                                       session |-> session,
                                                       event_id |-> event_id,
                                                       method |-> "POST", title |-> title,
                                                       venue |-> venue,
                                                       capacity |-> capacity]]
                         /\ Goto(p, "ee_update", NoLocals)
    /\ UNCHANGED <<store, now, env>>

EditEvent_Update(p) ==
    /\ pc[p] = "ee_update"
    /\ \E conn \in Connect :
       events' = IF conn /\ req[p].event_id \in DOMAIN events
                 THEN [events EXCEPT ![req[p].event_id].title = req[p].title,
                                     ![req[p].event_id].venue = req[p].venue,
                                     ![req[p].event_id].capacity = req[p].capacity]
                 ELSE events
    /\ Return(p, Response(TRUE, MsgEventUpdated))
    /\ UNCHANGED <<students, next_event_id, registrations, now, env, req>>

edit_event(p, titles, capacities) ==
    EditEvent_SelectEvent(p, titles, capacities) \/ EditEvent_Update(p)

DeleteEvent_SelectEvent(p) ==
    /\ pc[p] = "idle"
    /\ \E session \in Sessions :
        IF session.admin_id = None
        THEN /\ req' = [req EXCEPT ![p] = [route |-> "delete_event", session |-> session]]
             /\ Return(p, Response(FALSE, MsgAdminLogin))
        ELSE \E event_id \in EventIdArgs, conn \in Connect :
             /\ req' = [req EXCEPT ![p] = [route |-> "delete_event", session |-> session,
                                           event_id |-> event_id]]
             /\ LET event == IF conn THEN SelectEventById(event_id) ELSE None
                IN  IF event = None
                    THEN Return(p, Response(FALSE, MsgEventNotFound))
                    ELSE Goto(p, "de_delete", NoLocals)
    /\ UNCHANGED <<store, now, env>>

DeleteEvent_Delete(p) ==
    /\ pc[p] = "de_delete"
    /\ \E conn \in Connect :
       IF conn
       THEN /\ events' = DeleteEventRows(req[p].event_id)
            /\ registrations' = DeleteRegistrationsOf(req[p].event_id)
       ELSE UNCHANGED <<events, registrations>>
    /\ Return(p, Response(TRUE, MsgEventDeleted))
    /\ UNCHANGED <<students, next_event_id, now, env, req>>

delete_event(p) == DeleteEvent_SelectEvent(p) \/ DeleteEvent_Delete(p)

(***************************************************************************)
(* staff_verify (app.py), qr_verify and qr_verification_page               *)
(* (qr_routes.py).  The handlers run the same statements.  qr_routes.py    *)
(* reaches the database through qr_database.execute_query, which re-raises *)
(* where app.execute_query returns None.  qr_database.py opens the SQLite  *)
(* file event_management.db, app.py the PostgreSQL database; the tables    *)
(* have the same names and columns and are modelled as the one store that  *)
(* the handlers read and write.                                            *)
(***************************************************************************)
MsgStaffRequired == "Staff access required"
MsgAdminRequired == "Admin access required"
MsgNoQRData == "No QR data provided"
MsgNoQRCodeData == "No QR code data provided"
MsgAccessDenied == "Access denied. Admin access required."
MsgInvalidFormat == "Invalid QR code format"
MsgVStudentNotFound == "Student not found"
MsgVEventNotFound == "Event not found"
MsgNotRegistered == "Student not registered for this event"
MsgAlreadyCheckedIn == "has already checked in for this event"
MsgError == "Error processing QR code"
MsgCheckedIn == "success"

\* the POST handlers that verify a credential
VerifyRoutes == {"staff_verify", "qr_verify", "qr_verification_page"}

\* the session key each route tests
AuthorisedMutNoTest(route, session) == TRUE
Authorised(route, session) ==
    IF route = "staff_verify" THEN session.staff_id # None ELSE session.admin_id # None

\* the answer to a request without the session key
Unauthorised(route) ==
    CASE route = "staff_verify" -> MsgStaffRequired
      [] route = "qr_verify" -> MsgAdminRequired
      [] OTHER -> MsgAccessDenied

\* the answer to a request without text
NoData(route) == IF route = "qr_verification_page" THEN MsgNoQRCodeData ELSE MsgNoQRData

\* execute_query of qr_database.py re-raises; execute_query of app.py returns None
Raises(route) == route # "staff_verify"

\* the test on the two values read from qr_dict
InvalidFormatMutEventOnly(event_title, student_id_str) == event_title = <<>>
InvalidFormat(event_title, student_id_str) == event_title = <<>> \/ student_id_str = <<>>

\* session check, parse of qr_data, SELECT of the student
Verify_SelectStudent(p, typed) ==
    /\ pc[p] = "idle"
    /\ \E route \in VerifyRoutes, session \in Sessions :
        IF ~Authorised(route, session)
        THEN /\ req' = [req EXCEPT ![p] = [route |-> route, session |-> session]]
             /\ Return(p, Response(FALSE, Unauthorised(route)))
        ELSE \E qr_data \in QRInputs(typed) :
             /\ req' = [req EXCEPT ![p] = [route |-> route, session |-> session,
                                           qr_data |-> qr_data]]
             /\ IF qr_data = <<>>
                THEN Return(p, Response(FALSE, NoData(route)))
                ELSE LET event_title == QREventTitle(qr_data)
                         student_id_str == QRStudentId(qr_data)
                     IN  IF InvalidFormat(event_title, student_id_str)
                         THEN Return(p, Response(FALSE, MsgInvalidFormat))
                         ELSE \E conn \in Connect :
                              IF ~conn /\ Raises(route)
                              THEN Return(p, Response(FALSE, MsgError))
                              ELSE Goto(p, "v_select_event",
                                        [event_title |-> event_title,
                                         student_id_str |-> student_id_str,
                                         student |-> IF conn
                                                     THEN SelectStudentByStudentId(student_id_str)
                                                     ELSE None])
    /\ UNCHANGED <<store, now, env>>

\* SELECT of the event by title (fetchone: any matching row), then the two tests
Verify_SelectEventMutRouteOrder(p) ==
    /\ pc[p] = "v_select_event"
    /\ LET matching == EventsByTitle(loc[p].event_title)
       IN  IF req[p].route = "qr_verify" /\ matching = {}
           THEN Return(p, Response(FALSE, MsgVEventNotFound))
           ELSE IF loc[p].student = None
                THEN Return(p, Response(FALSE, MsgVStudentNotFound))
                ELSE IF matching = {}
                     THEN Return(p, Response(FALSE, MsgVEventNotFound))
                     ELSE \E event \in matching :
                          Goto(p, "v_select_registration",
                               [student |-> loc[p].student[1], event |-> event])
    /\ UNCHANGED <<store, now, env, req>>
Verify_SelectEvent(p) ==
    /\ pc[p] = "v_select_event"
    /\ \E conn \in Connect :
       IF ~conn /\ Raises(req[p].route)
       THEN Return(p, Response(FALSE, MsgError))
       ELSE LET matching == IF conn THEN EventsByTitle(loc[p].event_title) ELSE {}
            IN  IF loc[p].student = None
                THEN Return(p, Response(FALSE, MsgVStudentNotFound))
                ELSE IF matching = {}
                     THEN Return(p, Response(FALSE, MsgVEventNotFound))
                     ELSE \E event \in matching :
                          Goto(p, "v_select_registration",
                               [student |-> loc[p].student[1], event |-> event])
    /\ UNCHANGED <<store, now, env, req>>

\* SELECT of the registration, then the attended test
Verify_SelectRegistrationMutUpdateFirst(p) ==
    /\ pc[p] = "v_select_registration"
    /\ \E conn \in Connect :
       IF ~conn /\ Raises(req[p].route)
       THEN /\ Return(p, Response(FALSE, MsgError))
            /\ UNCHANGED registrations
       ELSE LET registration == IF conn
                                THEN SelectRegistration(loc[p].student.id, loc[p].event.id)
                                ELSE None
            IN  /\ registrations' =
                       SetAttendance(loc[p].student.id, loc[p].event.id, TRUE, Some(now))
                /\ IF registration = None
                   THEN Return(p, Response(FALSE, MsgNotRegistered))
                   ELSE IF registration[1].attended
                        THEN Return(p, Response(FALSE, MsgAlreadyCheckedIn))
                        ELSE Goto(p, "v_update", loc[p])
    /\ UNCHANGED <<students, events, next_event_id, now, env, req>>
Verify_SelectRegistration(p) ==
    /\ pc[p] = "v_select_registration"
    /\ \E conn \in Connect :
       IF ~conn /\ Raises(req[p].route)
       THEN Return(p, Response(FALSE, MsgError))
       ELSE LET registration == IF conn
                                THEN SelectRegistration(loc[p].student.id, loc[p].event.id)
                                ELSE None
            IN  IF registration = None
                THEN Return(p, Response(FALSE, MsgNotRegistered))
                ELSE IF registration[1].attended
                     THEN Return(p, Response(FALSE, MsgAlreadyCheckedIn))
                     ELSE Goto(p, "v_update", loc[p])
    /\ UNCHANGED <<store, now, env, req>>

\* UPDATE of attended and checkin_time, then the success response
Verify_UpdateMutWholeEvent(p) ==
    /\ pc[p] = "v_update"
    /\ registrations' =
           BagOfAll(LAMBDA r : IF r.event_id = loc[p].event.id
                               THEN [r EXCEPT !.attended = TRUE, !.checkin_time = Some(now)]
                               ELSE r,
                    registrations)
    /\ Return(p, [success |-> TRUE, message |-> MsgCheckedIn,
                  student |-> loc[p].student, event |-> loc[p].event,
                  checkin_time |-> Some(now)])
    /\ UNCHANGED <<students, events, next_event_id, now, env, req>>
Verify_Update(p) ==
    /\ pc[p] = "v_update"
    /\ \E conn \in Connect :
       IF ~conn /\ Raises(req[p].route)
       THEN /\ Return(p, Response(FALSE, MsgError))
            /\ UNCHANGED registrations
       ELSE /\ registrations' =
                   IF conn
                   THEN SetAttendance(loc[p].student.id, loc[p].event.id, TRUE, Some(now))
                   ELSE registrations
            /\ Return(p, [success |-> TRUE, message |-> MsgCheckedIn,
                          student |-> loc[p].student, event |-> loc[p].event,
                          checkin_time |-> Some(now)])
    /\ UNCHANGED <<students, events, next_event_id, now, env, req>>

verify(p, typed) ==
    \/ Verify_SelectStudent(p, typed)
    \/ Verify_SelectEvent(p)
    \/ Verify_SelectRegistration(p)
    \/ Verify_Update(p)

(***************************************************************************)
(* mark_attendance                                                         *)
(***************************************************************************)
MsgUnauthorized == "Unauthorized"
MsgAttendanceUpdated == "Attendance updated"

\* the session test of mark_attendance
IsAdminMutAnySession(session) == TRUE
IsAdmin(session) == session.admin_id # None

StudentIdArgs == {students[i].student_id : i \in DOMAIN students} \cup {UnknownStudentId}

MarkAttendance_SelectStudent(p) ==
    /\ pc[p] = "idle"
    /\ \E session \in Sessions :
        IF ~IsAdmin(session)
        THEN /\ req' = [req EXCEPT ![p] = [route |-> "mark_attendance", session |-> session]]
             /\ Return(p, Response(FALSE, MsgUnauthorized))
        ELSE \E student_id \in StudentIdArgs, event_id \in EventIdArgs,
                attended \in BOOLEAN, conn \in Connect :
             /\ req' = [req EXCEPT ![p] = [route |-> "mark_attendance", session |-> session,
                                           student_id |-> student_id, event_id |-> event_id,
                                           attended |-> attended]]
             /\ LET student == IF conn THEN SelectStudentByStudentId(student_id) ELSE None
                IN  IF student = None
                    THEN Return(p, Response(FALSE, MsgVStudentNotFound))
                    ELSE Goto(p, "ma_update", [student |-> student[1]])
    /\ UNCHANGED <<store, now, env>>

MarkAttendance_Update(p) ==
    /\ pc[p] = "ma_update"
    /\ \E conn \in Connect :
       registrations' =
           IF conn
           THEN SetAttendance(loc[p].student.id, req[p].event_id, req[p].attended,
                              IF req[p].attended THEN Some(now) ELSE None)
           ELSE registrations
    /\ Return(p, Response(TRUE, MsgAttendanceUpdated))
    /\ UNCHANGED <<students, events, next_event_id, now, env, req>>

mark_attendance(p) == MarkAttendance_SelectStudent(p) \/ MarkAttendance_Update(p)

(***************************************************************************)
(* export_attendance_all, event_registrations_export and the exporters.    *)
(* A format tag is the sequence of its characters.  A response names the   *)
(* file that is sent ("redirect" when none is), its records, the messages  *)
(* flashed and the exporters that were called, in order.                   *)
(***************************************************************************)
\* str.lower() on one character of a tag
LowerChar(c) ==
    CASE c = "C" -> "c" [] c = "S" -> "s" [] c = "V" -> "v" [] c = "E" -> "e"
      [] c = "X" -> "x" [] c = "L" -> "l" [] c = "P" -> "p" [] c = "D" -> "d"
      [] c = "F" -> "f" [] OTHER -> c

\* str.lower()
LowerMutIdentity(tag) == tag
Lower(tag) == [i \in DOMAIN tag |-> LowerChar(tag[i])]

\* the values of the query argument `format`; None when the argument is absent
FormatArgs ==
    { None, Some(<<>>), Some(<<"c", "s", "v">>), Some(<<"C", "S", "V">>),
      Some(<<"e", "x", "c", "e", "l">>), Some(<<"E", "x", "c", "e", "l">>),
      Some(<<"p", "d", "f">>), Some(<<"P", "d", "F">>),
      Some(<<"x", "l", "s">>), Some(<<"c", "s", "v", " ">>) }

\* pandas, openpyxl or reportlab raises while the file is built
ExporterRaises == IF faults THEN {FALSE, TRUE} ELSE {FALSE}

ExportResponse(file, records, flashes, calls) ==
    [file |-> file, records |-> records, flashes |-> flashes, calls |-> calls]

\* export_csv and export_event_csv write str and None values of dict rows to a
\* StringIO; no statement of them raises for rows the queries return
export_csv(records, flashes, calls) ==
    ExportResponse("csv", records, flashes, Append(calls, "csv"))

\* export_excel and export_event_excel
export_excelMutNoFallback(records, raises, flashes, calls) ==
    IF raises
    THEN ExportResponse("redirect", {}, Append(flashes, "Excel export error"),
                        Append(calls, "excel"))
    ELSE ExportResponse("excel", records, flashes, Append(calls, "excel"))
export_excel(records, raises, flashes, calls) ==
    IF raises
    THEN export_csv(records, Append(flashes, "Excel export error"), Append(calls, "excel"))
    ELSE ExportResponse("excel", records, flashes, Append(calls, "excel"))

\* export_pdf and export_event_pdf
export_pdf(records, raises, flashes, calls) ==
    IF ~REPORTLAB_AVAILABLE
    THEN export_csv(records, Append(flashes, "PDF export requires ReportLab library"),
                    Append(calls, "pdf"))
    ELSE IF raises
         THEN export_csv(records, Append(flashes, "PDF export error"), Append(calls, "pdf"))
         ELSE ExportResponse("pdf", records, flashes, Append(calls, "pdf"))

\* the if/elif chain on fmt; only export_attendance_all flashes for an unknown tag
SelectExporter(route, fmt, records, raises) ==
    CASE fmt = <<"c", "s", "v">> -> export_csv(records, <<>>, <<>>)
      [] fmt = <<"e", "x", "c", "e", "l">> -> export_excel(records, raises, <<>>, <<>>)
      [] fmt = <<"p", "d", "f">> -> export_pdf(records, raises, <<>>, <<>>)
      [] OTHER -> export_csv(records,
                             IF route = "export_attendance_all"
                             THEN <<"Unknown export format. Using CSV.">> ELSE <<>>,
                             <<>>)

\* `if not records`
NoRecordsMutNever(records) == FALSE
NoRecords(records) == records = {}

\* the rows of registrations JOIN students JOIN events the export queries select;
\* event_id = None selects over all events
ExportRecords(event_id, attendance_only) ==
    { r \in BagToSet(registrations) :
        /\ r.student_id \in DOMAIN students
        /\ r.event_id \in DOMAIN events
        /\ event_id # None => r.event_id = event_id[1]
        /\ attendance_only => r.attended }

\* request.args.get('format', 'csv').lower(), the query, the short-circuit and
\* the dispatch; execute_query(...) or [] is empty while the database is unreachable
Export(p, route, records) ==
    LET fmt == Lower(IF req'[p].format = None THEN <<"c", "s", "v">> ELSE req'[p].format[1])
    IN  IF NoRecords(records)
        THEN Return(p, ExportResponse("redirect", {},
                                      <<IF route = "export_attendance_all"
                                        THEN "No attendance records found!"
                                        ELSE "No records found">>, <<>>))
        ELSE \E raises \in ExporterRaises :
                 Return(p, SelectExporter(route, fmt, records, raises))

export_attendance_all(p) ==
    /\ pc[p] = "idle"
    /\ \E session \in Sessions, format \in FormatArgs :
        /\ req' = [req EXCEPT ![p] = [route |-> "export_attendance_all", session |-> session,
                                      format |-> format]]
        /\ IF session.admin_id = None
           THEN Return(p, ExportResponse("redirect", {}, <<>>, <<>>))
           ELSE \E conn \in Connect :
                    Export(p, "export_attendance_all",
                           IF conn THEN ExportRecords(None, TRUE) ELSE {})
    /\ UNCHANGED <<store, now, env>>

EventExport_SelectEvent(p) ==
    /\ pc[p] = "idle"
    /\ \E session \in Sessions, format \in FormatArgs, event_id \in EventIdArgs,
          attendance_only \in BOOLEAN :
        /\ req' = [req EXCEPT ![p] = [route |-> "event_registrations_export",
                                      session |-> session, format |-> format,
                                      event_id |-> event_id,
                                      attendance_only |-> attendance_only]]
        /\ IF session.admin_id = None
           THEN Return(p, ExportResponse("redirect", {}, <<>>, <<>>))
           ELSE \E conn \in Connect :
                    LET event == IF conn THEN SelectEventById(event_id) ELSE None
                    IN  IF event = None
                        THEN Return(p, ExportResponse("redirect", {}, <<"Event not found!">>, <<>>))
                        ELSE Goto(p, "ee_export", [event |-> event[1]])
    /\ UNCHANGED <<store, now, env>>

EventExport_Export(p) ==
    /\ pc[p] = "ee_export"
    /\ req' = req
    /\ \E conn \in Connect :
           Export(p, "event_registrations_export",
                  IF conn THEN ExportRecords(Some(req[p].event_id), req[p].attendance_only)
                  ELSE {})
    /\ UNCHANGED <<store, now, env>>

event_registrations_export(p) == EventExport_SelectEvent(p) \/ EventExport_Export(p)

(***************************************************************************)
(* Connections and startup.  An operation opens its connection, runs its   *)
(* statements and returns; the two steps are separate here so that the     *)
(* open connections can be counted.  The handlers above take execute_query *)
(* as one step: it opens and closes its connection within that step.       *)
(* Each worker process imports app.py, which calls check_and_init_database *)
(* and then serves; init_db.py is run from the command line and is taken   *)
(* as one more operation of a process.                                     *)
(***************************************************************************)
DbOperations ==
    {"app.execute_query", "database.execute_query", "qr_database.execute_query",
     "init_qr_tables", "init_postgresql_tables"}

\* get_db_connection / connect: no connection without DATABASE_URL, while the
\* server is unreachable, or when it has no connection slot left
OpenConnection == IF open_connections < MaxConnections THEN {TRUE, FALSE} ELSE {FALSE}

\* a statement of the operation raises; a query raises while the tables are missing
StatementRaises(op) ==
    IF op \in {"app.execute_query", "database.execute_query"} /\ ~db_initialised
    THEN {TRUE}
    ELSE {FALSE, TRUE}

\* conn.close() is in a finally clause, except in the two routines that create
\* the tables: there it is the last statement of the try block
ClosesOnFailure(op) == op \notin {"check_and_init_database", "init_postgresql_tables"}

\* the operation returns.  The value check_and_init_database returns is dropped
\* by the module and the process goes on to serve requests.
Finish(p, op, response) ==
    IF op = "check_and_init_database"
    THEN /\ pc' = [pc EXCEPT ![p] = "idle"]
         /\ resp' = [resp EXCEPT ![p] = response]
         /\ loc' = [loc EXCEPT ![p] = NoLocals]
    ELSE Return(p, response)

Operation_Connect(p, from, ops) ==
    /\ pc[p] = from
    /\ \E op \in ops, conn \in OpenConnection :
        /\ req' = [req EXCEPT ![p] = [route |-> op]]
        /\ IF conn
           THEN /\ open_connections' = open_connections + 1
                /\ Goto(p, "op_execute", NoLocals)
           ELSE /\ open_connections' = open_connections
                /\ Finish(p, op, Response(FALSE, "Cannot connect to database"))
    /\ UNCHANGED <<store, now, faults, REPORTLAB_AVAILABLE, db_initialised>>

Operation_Execute(p, ops) ==
    /\ pc[p] = "op_execute"
    /\ req[p].route \in ops
    /\ \E raises \in StatementRaises(req[p].route) :
        \* without a close() the connection object is left to the interpreter,
        \* which may or may not finalise it when the routine returns
        /\ \E closed \in IF raises /\ ~ClosesOnFailure(req[p].route)
                         THEN {FALSE, TRUE} ELSE {TRUE} :
               open_connections' = IF closed THEN open_connections - 1 ELSE open_connections
        /\ db_initialised' =
               IF ~raises /\ ~ClosesOnFailure(req[p].route) THEN TRUE ELSE db_initialised
        /\ Finish(p, req[p].route,
                  IF raises THEN Response(FALSE, "Error") ELSE Response(TRUE, "complete"))
    /\ UNCHANGED <<store, now, faults, REPORTLAB_AVAILABLE, req>>

\* the call at the import of app.py
check_and_init_database(p) ==
    \/ Operation_Connect(p, "boot", {"check_and_init_database"})
    \/ Operation_Execute(p, {"check_and_init_database"})

\* execute_query of the three modules, init_qr_tables, init_postgresql_tables
operation(p) ==
    \/ Operation_Connect(p, "idle", DbOperations)
    \/ Operation_Execute(p, DbOperations)

(***************************************************************************)
(* Specifications.  The routes are composed per concern: the product of    *)
(* all routes over one store is beyond exhaustive search.                  *)
(***************************************************************************)
\* registration and event administration, one request at a time, from the empty database
RegistrationNext ==
    \E p \in Workers : \/ register_event(p)
                       \/ create_event(p, Titles, Capacities)
                       \/ edit_event(p, Titles, Capacities)
                       \/ delete_event(p)
                       \/ Respond(p)

RegistrationSpec == Init /\ [][RegistrationNext]_vars

\* registration and check-in, one request at a time, from the empty database
CheckinNext ==
    \/ \E p \in Workers : \/ create_event(p, Titles, {MaxCapacity})
                          \/ register_event(p)
                          \/ verify(p, ManualTexts)
                          \/ mark_attendance(p)
                          \/ Respond(p)
    \/ Tick

CheckinSpec == Init /\ [][CheckinNext]_vars
(***************************************************************************)
(* Concurrent requests over a database that already holds event 1          *)
(***************************************************************************)
SeededEvent(capacity, registered) ==
    [id |-> 1, title |-> TitleTechTalk, venue |-> <<"Hall">>, capacity |-> capacity,
     registered_count |-> Cardinality(registered)]

\* event 1 was created and the students in `registered` registered for it in turn
SeededStore(capacity, registered) ==
    /\ students = StudentRows
    /\ events = [i \in {1} |-> SeededEvent(capacity, registered)]
    /\ next_event_id = 2
    /\ registrations =
           SetToBag({NewRegistration(s, 1, BuildQR(SeededEvent(capacity, registered),
                                                   StudentRows[s], 1)) : s \in registered})

RegisterRaceInit ==
    /\ \E capacity \in Capacities : SeededStore(capacity, {})
    /\ now = 0
    /\ faults = FALSE
    /\ REPORTLAB_AVAILABLE = TRUE
    /\ Started
    /\ WorkersInit(Workers)

RegisterRaceNext == \E p \in Workers : register_event(p) \/ Respond(p)

RegisterRaceSpec == RegisterRaceInit /\ [][RegisterRaceNext]_vars

VerifyRaceInit ==
    /\ \E registered \in SUBSET (DOMAIN StudentRows) :
          /\ Cardinality(registered) <= MaxCapacity
          /\ SeededStore(MaxCapacity, registered)
    /\ now = 0
    /\ faults = FALSE
    /\ REPORTLAB_AVAILABLE = TRUE
    /\ Started
    /\ WorkersInit(Workers)

VerifyRaceNext ==
    \/ \E p \in Workers : verify(p, {ManualQR(TitleTechTalk, StudentAnn.student_id)})
                          \/ Respond(p)
    \/ Tick

VerifyRaceSpec == VerifyRaceInit /\ [][VerifyRaceNext]_vars

\* one worker serves scans and typed texts against the seeded database
ScanInit ==
    /\ \E registered \in SUBSET (DOMAIN StudentRows) :
          /\ Cardinality(registered) <= MaxCapacity
          /\ SeededStore(MaxCapacity, registered)
    /\ now = 0
    /\ faults = FALSE
    /\ REPORTLAB_AVAILABLE = TRUE
    /\ Started
    /\ WorkersInit({Min(Workers)})

ScanNext ==
    \/ \E p \in Workers : verify(p, ManualTexts) \/ Respond(p)
    \/ Tick

ScanSpec == ScanInit /\ [][ScanNext]_vars

\* registration, check-in and the administrator's attendance toggle, one
\* request at a time, against the seeded database
AttendanceNext ==
    \/ \E p \in Workers : \/ register_event(p)
                          \/ verify(p, ManualTexts)
                          \/ mark_attendance(p)
                          \/ Respond(p)
    \/ Tick

AttendanceSpec == ScanInit /\ [][AttendanceNext]_vars

\* the seeded database while connections and the QR encoder may fail
FaultInit ==
    /\ \E registered \in SUBSET (DOMAIN StudentRows) :
          /\ Cardinality(registered) <= MaxCapacity
          /\ SeededStore(MaxCapacity, registered)
    /\ now = 0
    /\ faults = TRUE
    /\ REPORTLAB_AVAILABLE = TRUE
    /\ Started
    /\ WorkersInit({Min(Workers)})

FaultNext ==
    \/ \E p \in Workers : \/ register_event(p)
                          \/ verify(p, ManualTexts)
                          \/ Respond(p)
    \/ Tick

FaultSpec == FaultInit /\ [][FaultNext]_vars

\* events are created, registered for and deleted, one request at a time,
\* from the empty database
DeleteNext ==
    \E p \in Workers : \/ create_event(p, {TitleTechTalk}, {MaxCapacity})
                       \/ register_event(p)
                       \/ delete_event(p)
                       \/ Respond(p)

DeleteSpec == Init /\ [][DeleteNext]_vars

\* the administrator marks attendance and downloads the records, one request
\* at a time, while the database and the format backends may fail
ExportInit ==
    /\ \E registered \in SUBSET (DOMAIN StudentRows) :
          /\ Cardinality(registered) <= MaxCapacity
          /\ SeededStore(MaxCapacity, registered)
    /\ now = 0
    /\ faults = TRUE
    /\ REPORTLAB_AVAILABLE \in BOOLEAN
    /\ Started
    /\ WorkersInit({Min(Workers)})

ExportNext ==
    \E p \in Workers : \/ mark_attendance(p)
                       \/ export_attendance_all(p)
                       \/ event_registrations_export(p)
                       \/ Respond(p)

ExportSpec == ExportInit /\ [][ExportNext]_vars

\* the worker processes start against a database without tables and then
\* run operations, while connecting and any statement may fail
StartupInit ==
    /\ students = [i \in {} |-> None]
    /\ events = [i \in {} |-> None]
    /\ next_event_id = 1
    /\ registrations = EmptyBag
    /\ now = 0
    /\ faults = TRUE
    /\ REPORTLAB_AVAILABLE = TRUE
    /\ open_connections = 0
    /\ db_initialised = FALSE
    /\ pc = [p \in Workers |-> "boot"]
    /\ req = [p \in Workers |-> Idle]
    /\ loc = [p \in Workers |-> NoLocals]
    /\ resp = [p \in Workers |-> NoResponse]

StartupNext ==
    \E p \in Workers : \/ check_and_init_database(p)
                       \/ operation(p)
                       \/ Respond(p)

StartupSpec == StartupInit /\ [][StartupNext]_vars

\* the administrator creates and edits events between the scans of the
\* credentials issued before, one request at a time
RetitleNext ==
    \E p \in Workers : \/ create_event(p, {TitleAIIntro}, {MaxCapacity})
                       \/ edit_event(p, Titles, {MaxCapacity})
                       \/ verify(p, {})
                       \/ Respond(p)

RetitleSpec == ScanInit /\ [][RetitleNext]_vars

\* every route that writes, called with and without the session key it needs,
\* one request at a time, against the seeded database; the form of edit_event
\* is posted with the values events are created with
SessionNext ==
    \E p \in Workers : \/ register_event(p)
                       \/ create_event(p, {TitleTechTalk}, {MaxCapacity})
                       \/ edit_event(p, {TitleTechTalk}, {MaxCapacity})
                       \/ delete_event(p)
                       \/ verify(p, {})
                       \/ mark_attendance(p)
                       \/ Respond(p)

SessionSpec == ScanInit /\ [][SessionNext]_vars

\* the lines a typed or damaged credential text is made of
LineShapes ==
    { <<"x">>,
      KeyEvent \o <<COLON, SP>> \o TitleTechTalk,
      <<SP>> \o KeyEvent \o <<SP, COLON, SP>> \o TitleTechTalk \o <<SP>>,
      KeyEvent \o <<COLON, SP, "x", COLON, "y">>,
      KeyEvent \o <<COLON>>,
      KeyStudentID \o <<COLON, SP>> \o StudentAnn.student_id,
      KeyStudentID \o <<COLON>> \o StudentBob.student_id,
      KeyEventDate \o <<COLON, SP>> \o DateText,
      <<COLON, SP, "x">> }

\* the texts of at most n lines, each line ended by a newline
RECURSIVE TextsOfLines(_)
TextsOfLines(n) ==
    IF n = 0 THEN {<<>>}
    ELSE LET shorter == TextsOfLines(n - 1)
         IN  shorter \cup {t \o l \o <<NL>> : t \in shorter, l \in LineShapes}

\* one worker parses and verifies arbitrary texts; Ann is registered for event 1
ParseInit ==
    /\ SeededStore(MaxCapacity, {StudentAnn.id})
    /\ now = 0
    /\ faults = FALSE
    /\ REPORTLAB_AVAILABLE = TRUE
    /\ Started
    /\ WorkersInit({Min(Workers)})

ParseNext == \E p \in Workers : verify(p, TextsOfLines(MaxLines)) \/ Respond(p)

ParseSpec == ParseInit /\ [][ParseNext]_vars

(***************************************************************************)
(* The credential round trip: one student and one event with arbitrary     *)
(* field texts, register_event builds the credential, verify parses it     *)
(***************************************************************************)
Alphabet == {"a", COLON, SP, NL}

RECURSIVE TextsOfLen(_)
TextsOfLen(n) == IF n = 0 THEN {<<>>}
                 ELSE {<<c>> \o t : c \in Alphabet, t \in TextsOfLen(n - 1)}

FieldTexts == UNION {TextsOfLen(n) : n \in 0..MaxFieldLen}

NameTexts == {<<"Ann">>, <<"Ann", NL, "Event", COLON, "x">>}
VenueTexts == {<<"Hall">>, <<"Hall", NL, "Student", SP, "ID", COLON, "x">>}

QRInit ==
    /\ \E student_id \in FieldTexts, name \in NameTexts,
          title \in FieldTexts, venue \in VenueTexts :
          /\ students = [i \in {1} |-> [id |-> 1, student_id |-> student_id, name |-> name]]
          /\ events = [i \in {1} |-> [id |-> 1, title |-> title, venue |-> venue,
                                      capacity |-> 1, registered_count |-> 0]]
    /\ next_event_id = 2
    /\ registrations = EmptyBag
    /\ now = 0
    /\ faults = FALSE
    /\ REPORTLAB_AVAILABLE = TRUE
    /\ Started
    /\ WorkersInit({Min(Workers)})

QRNext == \E p \in Workers : register_event(p) \/ verify(p, {}) \/ Respond(p)

QRSpec == QRInit /\ [][QRNext]_vars

(***************************************************************************)
(* Properties                                                              *)
(***************************************************************************)
Quiescent == \A p \in Workers : pc[p] \in {"off", "idle", "done"}

VerifyDone(p) ==
    /\ pc[p] = "done"
    /\ req[p].route \in VerifyRoutes
    /\ Authorised(req[p].route, req[p].session)

RegisterDone(p) ==
    /\ pc[p] = "done"
    /\ req[p].route = "register_event"
    /\ req[p].session.student_id # None

\* C1: of the verify requests that run concurrently for one registered pair, at
\* most one reports success: no two workers hold a success response for the
\* same student and event.
C1_ExactlyOneCheckin ==
    \A p \in Workers, q \in Workers :
        ( /\ p # q
          /\ VerifyDone(p) /\ resp[p].success
          /\ VerifyDone(q) /\ resp[q].success )
        => ~( /\ resp[p].student.id = resp[q].student.id
              /\ resp[p].event.id = resp[q].event.id )

\* C3: registered_count never exceeds capacity while register_event requests
\* of different students interleave.  The states looked at are those where the
\* count equals the number of rows, so that every increment belongs to a row of
\* its own and, rows being unique per pair, to a different student.
C3_CountWithinCapacity ==
    \A e \in DOMAIN events :
        events[e].registered_count = EventRegCount(e)
        => events[e].registered_count <= events[e].capacity

\* C6: there is at most one registration row per (student, event) pair in
\* every reachable state, also when two requests for the pair both pass the
\* duplicate check before either inserts.
C6_OneRowPerPair ==
    \A s \in DOMAIN students, e \in DOMAIN events : RegCount(s, e) <= 1

\* two requests of one student for one event are both past the INSERT
C6_Witness ==
    \E p \in Workers, q \in Workers :
        /\ p # q
        /\ pc[p] = "re_update_count" /\ pc[q] = "re_update_count"
        /\ req[p].session = req[q].session
        /\ req[p].event_id = req[q].event_id
        /\ RegCount(req[p].session.student_id[1], req[p].event_id) = 1

\* C7: once no request is in progress, each event's registered_count equals
\* the number of registration rows that reference the event.
C7_CountMatchesRows ==
    Quiescent => \A e \in DOMAIN events : events[e].registered_count = EventRegCount(e)

\* the registration rows whose credential text is qr_data
IssuedRows(qr_data) == {r \in BagToSet(registrations) : r.qr_code_path = qr_data}

\* C2: a verify call made with the credential of a registered pair ends in one
\* of two ways: it succeeds and the pair's row is attended with the
\* checkin_time of the response, or it fails with 'already checked in' and the
\* row keeps the checkin_time it had.
C2_VerifyTwice ==
    \A p \in Workers :
        VerifyDone(p) =>
            \A r \in IssuedRows(req[p].qr_data) :
                /\ r.attended
                /\ r.checkin_time # None
                /\ \/ resp[p].success /\ r.checkin_time = resp[p].checkin_time
                   \/ resp[p] = Response(FALSE, MsgAlreadyCheckedIn)

\* C4: a register_event call of a student who already has a row for the event
\* (the second call of the two) fails with 'already registered', and the
\* student has one row.
C4_RegisterTwice ==
    \A p \in Workers :
        ( /\ RegisterDone(p)
          /\ req[p].event_id \in DOMAIN events
          /\ RegCount(req[p].session.student_id[1], req[p].event_id) >= 1
          /\ ~resp[p].success )
        => resp[p] = Response(FALSE, MsgAlreadyRegistered)

\* C5: a register_event request for an event whose registered_count equals its
\* capacity returns 'Event is full' and leaves every table unchanged.
C5_FullEventRejects ==
    [][\A p \in Workers :
          ( /\ pc[p] = "idle" /\ pc'[p] # "idle"
            /\ req'[p].route = "register_event"
            /\ req'[p].session.student_id # None
            /\ req'[p].event_id \in DOMAIN events
            /\ events[req'[p].event_id].registered_count
                   = events[req'[p].event_id].capacity )
          => /\ pc'[p] = "done"
             /\ resp'[p] = Response(FALSE, MsgEventFull)
             /\ store' = store]_vars

\* a student without a row is turned away from an event filled by others
C5_Witness ==
    \E p \in Workers :
        /\ RegisterDone(p)
        /\ resp[p] = Response(FALSE, MsgEventFull)
        /\ req[p].event_id \in DOMAIN events
        /\ events[req[p].event_id].capacity >= 1
        /\ events[req[p].event_id].registered_count = events[req[p].event_id].capacity
        /\ RegCount(req[p].session.student_id[1], req[p].event_id) = 0

\* C9: a verify request whose text parses without a value for 'Event' or for
\* 'Student ID' returns 'Invalid QR code format' in its first step, before any
\* SELECT, and leaves every table unchanged.
C9_InvalidFormatFirst ==
    [][\A p \in Workers :
          ( /\ pc[p] = "idle" /\ pc'[p] # "idle"
            /\ req'[p].route \in VerifyRoutes
            /\ Authorised(req'[p].route, req'[p].session)
            /\ req'[p].qr_data # <<>>
            /\ \/ DictGet(ParseQR(req'[p].qr_data), KeyEvent, <<>>) = <<>>
               \/ DictGet(ParseQR(req'[p].qr_data), KeyStudentID, <<>>) = <<>> )
          => /\ pc'[p] = "done"
             /\ resp'[p] = Response(FALSE, MsgInvalidFormat)
             /\ store' = store]_vars

\* the text has an 'Event' value and no 'Student ID' line
C9_Witness ==
    \E p \in Workers :
        /\ VerifyDone(p)
        /\ resp[p] = Response(FALSE, MsgInvalidFormat)
        /\ QREventTitle(req[p].qr_data) # <<>>
        /\ QRStudentId(req[p].qr_data) = <<>>
        /\ EventsByTitle(QREventTitle(req[p].qr_data)) # {}

\* C10: a verify call for a known student whose credential names a title that
\* no event or more than one event carries returns 'Event not found'.
C10_AmbiguousTitleRejected ==
    \A p \in Workers :
        ( /\ VerifyDone(p)
          /\ req[p].qr_data # <<>>
          /\ ~InvalidFormat(QREventTitle(req[p].qr_data), QRStudentId(req[p].qr_data))
          /\ SelectStudentByStudentId(QRStudentId(req[p].qr_data)) # None
          /\ Cardinality(EventsByTitle(QREventTitle(req[p].qr_data))) # 1 )
        => resp[p] = Response(FALSE, MsgVEventNotFound)

\* C8: the credential of every registration row parses to the title of its
\* event and the student_id of its student.
C8_RoundTrip ==
    \A r \in BagToSet(registrations) :
        /\ QREventTitle(r.qr_code_path) = events[r.event_id].title
        /\ QRStudentId(r.qr_code_path) = students[r.student_id].student_id

\* C11: every registration row has attended = TRUE exactly when its
\* checkin_time is set.
C11_AttendedIffCheckinTime ==
    \A r \in BagToSet(registrations) : r.attended <=> r.checkin_time # None

\* a row that was checked in and a row that the administrator reset or that
\* was never checked in, after a mark_attendance request has returned
C11_Witness ==
    /\ \E r \in BagToSet(registrations) : r.attended /\ r.checkin_time = Some(now) /\ now > 0
    /\ \E r \in BagToSet(registrations) : ~r.attended
    /\ \E p \in Workers :
          /\ pc[p] = "done"
          /\ req[p].route = "mark_attendance"
          /\ resp[p] = Response(TRUE, MsgAttendanceUpdated)

\* C12: a step that turns a pair's row from attended to not attended is the
\* UPDATE of a mark_attendance request that carries an admin session and
\* attended = false for that pair.
C12_ResetOnlyByAdmin ==
    [][\A s \in DOMAIN students, e \in EventIdArgs :
          ( /\ \E r \in BagToSet(registrations) :
                  r.student_id = s /\ r.event_id = e /\ r.attended
            /\ \E r \in BagToSet(registrations') :
                  r.student_id = s /\ r.event_id = e /\ ~r.attended )
          => \E p \in Workers :
                /\ pc[p] = "ma_update" /\ pc'[p] = "done"
                /\ req[p].route = "mark_attendance"
                /\ req[p].session.admin_id # None
                /\ req[p].attended = FALSE
                /\ loc[p].student.id = s
                /\ req[p].event_id = e]_vars

\* the administrator's reset of a checked-in row is about to run
C12_Witness ==
    \E p \in Workers :
        /\ pc[p] = "ma_update"
        /\ req[p].attended = FALSE
        /\ \E r \in RegRows(loc[p].student.id, req[p].event_id) : r.attended

\* C13: a register_event request whose QR generation fails reports the
\* failure from the point between the SELECTs and the INSERT, and no step of
\* the request up to and including that one changes a table: no row is
\* inserted and registered_count is not incremented.
C13_QRFailureWritesNothing ==
    [][\A p \in Workers :
          /\ ( /\ pc[p] # pc'[p]
               /\ pc'[p] \in {"re_select_registration", "re_select_student"} )
             => store' = store
          /\ ( /\ pc[p] # "done" /\ pc'[p] = "done"
               /\ resp'[p] = Response(FALSE, MsgQRError) )
             => /\ pc[p] = "re_select_student"
                /\ store' = store]_vars

\* the encoder failed for a pair without a row
C13_Witness ==
    \E p \in Workers :
        /\ RegisterDone(p)
        /\ resp[p] = Response(FALSE, MsgQRError)
        /\ RegCount(req[p].session.student_id[1], req[p].event_id) = 0
        /\ events[req[p].event_id].registered_count = EventRegCount(req[p].event_id)

\* C14: a register_event or verify request that reports a failure has changed
\* no table.  The step that returns the failure changes nothing; the only
\* steps that change a table are the INSERT of register_event and steps that
\* return success; and a request that has run its INSERT returns success.
C14_FailureChangesNothing ==
    [][/\ \A p \in Workers :
             ( /\ pc[p] # "done" /\ pc'[p] = "done"
               /\ req'[p].route \in VerifyRoutes \cup {"register_event"}
               /\ ~resp'[p].success )
             => store' = store
       /\ store' # store
             => \E p \in Workers :
                   \/ pc[p] = "re_insert" /\ pc'[p] = "re_update_count"
                   \/ pc[p] # "done" /\ pc'[p] = "done" /\ resp'[p].success
       /\ \A p \in Workers :
             (pc[p] = "re_update_count" /\ pc'[p] # pc[p]) => resp'[p].success]_vars

\* a second scan, later than the check-in, was turned away
C14_Witness ==
    \E p \in Workers :
        /\ VerifyDone(p)
        /\ resp[p] = Response(FALSE, MsgAlreadyCheckedIn)
        /\ \E s \in DOMAIN students :
              /\ students[s].student_id = QRStudentId(req[p].qr_data)
              /\ \E r \in RegRows(s, 1) : r.attended /\ r.checkin_time # Some(now)

\* the rows of the events other than event_id, with their multiplicities
RowsOfOthers(regs, event_id) ==
    [r \in {x \in BagToSet(regs) : x.event_id # event_id} |-> regs[r]]

\* C15: every registration row references a stored event, and the DELETE of
\* delete_event leaves no row of the deleted event, while the rows of the
\* other events and the students table stay as they were.
C15_DeleteCascades ==
    /\ [](\A r \in BagToSet(registrations) : r.event_id \in DOMAIN events)
    /\ [][\A p \in Workers :
             ( /\ pc[p] = "de_delete" /\ pc'[p] = "done"
               /\ resp'[p] = Response(TRUE, MsgEventDeleted) )
             => /\ req[p].event_id \notin DOMAIN events'
                /\ \A r \in BagToSet(registrations') : r.event_id # req[p].event_id
                /\ RowsOfOthers(registrations', req[p].event_id)
                       = RowsOfOthers(registrations, req[p].event_id)
                /\ students' = students]_vars

\* the DELETE is about to run for an event with rows while another event has rows
C15_Witness ==
    \E p \in Workers :
        /\ pc[p] = "de_delete"
        /\ EventRegCount(req[p].event_id) >= 1
        /\ \E r \in BagToSet(registrations) : r.event_id # req[p].event_id

ExportRoutes == {"export_attendance_all", "event_registrations_export"}

\* worker p holds the response of an export request
ExportDone(p) == pc[p] = "done" /\ req[p].route \in ExportRoutes

\* the step in which the export request of worker p runs its query and returns
ExportReturns(p) ==
    /\ pc'[p] = "done"
    /\ req'[p].route \in ExportRoutes
    /\ req'[p].session.admin_id # None
    /\ \/ pc[p] = "idle" /\ req'[p].route = "export_attendance_all"
       \/ pc[p] = "ee_export"

\* the rows the query of that step matches
Queried(p) ==
    IF req'[p].route = "export_attendance_all"
    THEN ExportRecords(None, TRUE)
    ELSE ExportRecords(Some(req'[p].event_id), req'[p].attendance_only)

UpperChar(c) ==
    CASE c = "c" -> "C" [] c = "s" -> "S" [] c = "v" -> "V" [] c = "e" -> "E"
      [] c = "x" -> "X" [] c = "l" -> "L" [] c = "p" -> "P" [] c = "d" -> "D"
      [] c = "f" -> "F" [] OTHER -> c

\* tag and word differ at most in the case of their letters
SameWord(tag, word) ==
    /\ Len(tag) = Len(word)
    /\ \A i \in DOMAIN tag : tag[i] \in {word[i], UpperChar(word[i])}

\* the tag of the request, 'csv' when the argument is absent
TagOf(p) == IF req[p].format = None THEN <<"c", "s", "v">> ELSE req[p].format[1]

\* C16: both export operations choose the exporter by the format tag without
\* regard to case: csv calls the CSV exporter, excel the Excel exporter, pdf the
\* PDF exporter, every other tag gives CSV output; no tag makes the request end
\* in an export error.
C16_ExporterByTag ==
    \A p \in Workers :
        ExportDone(p) =>
            IF resp[p].file = "redirect"
            THEN resp[p].flashes \in {<<>>, <<"No attendance records found!">>,
                                      <<"No records found">>, <<"Event not found!">>}
            ELSE CASE SameWord(TagOf(p), <<"c", "s", "v">>) ->
                          resp[p].calls = <<"csv">> /\ resp[p].file = "csv"
                   [] SameWord(TagOf(p), <<"e", "x", "c", "e", "l">>) ->
                          resp[p].calls[1] = "excel"
                   [] SameWord(TagOf(p), <<"p", "d", "f">>) ->
                          resp[p].calls[1] = "pdf"
                   [] OTHER -> resp[p].calls = <<"csv">> /\ resp[p].file = "csv"

C16_Witness ==
    \E p \in Workers :
        /\ ExportDone(p)
        /\ req[p].format = Some(<<"E", "x", "c", "e", "l">>)
        /\ resp[p].file = "excel"
        /\ resp[p].records # {}

\* C17: an export whose Excel or PDF backend fails or is absent returns the
\* CSV file of the records the query matched, with a flashed message, and
\* never an error outcome.
C17_BackendFailureGivesCsv ==
    [][\A p \in Workers :
          (ExportReturns(p) /\ resp'[p].calls # <<>>) =>
              /\ resp'[p].file \in {"csv", "excel", "pdf"}
              /\ resp'[p].records = Queried(p)
              /\ (resp'[p].calls[1] \in {"excel", "pdf"} /\ resp'[p].file # resp'[p].calls[1]) =>
                     /\ resp'[p].file = "csv"
                     /\ resp'[p].calls = <<resp'[p].calls[1], "csv">>
                     /\ resp'[p].flashes # <<>>]_vars

C17_Witness ==
    \E p \in Workers :
        /\ ExportDone(p)
        /\ ~REPORTLAB_AVAILABLE
        /\ resp[p].calls = <<"pdf", "csv">>
        /\ resp[p].file = "csv"
        /\ resp[p].records # {}
        /\ resp[p].flashes = <<"PDF export requires ReportLab library">>

\* C18: an export whose query matches no record ends in the warning and the
\* redirect, whatever the format tag, and calls no exporter.
C18_NoRecordsShortCircuit ==
    [][\A p \in Workers :
          (ExportReturns(p) /\ Queried(p) = {}) =>
              /\ resp'[p].file = "redirect"
              /\ resp'[p].calls = <<>>
              /\ resp'[p].flashes = <<IF req'[p].route = "export_attendance_all"
                                      THEN "No attendance records found!"
                                      ELSE "No records found">>]_vars

C18_Witness ==
    \E p \in Workers :
        /\ ExportDone(p)
        /\ req[p].route = "event_registrations_export"
        /\ req[p].format = Some(<<"p", "d", "f">>)
        /\ req[p].event_id \in DOMAIN events
        /\ req[p].attendance_only
        /\ EventRegCount(req[p].event_id) > 0
        /\ ExportRecords(Some(req[p].event_id), TRUE) = {}
        /\ resp[p] = ExportResponse("redirect", {}, <<"No records found">>, <<>>)

\* worker p is between the two steps of an operation and holds its connection
InOperation(p) == pc[p] = "op_execute"

\* C19: every operation that opens a database connection closes it before it
\* returns, on success and on every failure path, so the connections that
\* are open are those of the operations still running.
C19_ConnectionsClosed ==
    open_connections = Cardinality({p \in Workers : InOperation(p)})

\* C20: a process whose check_and_init_database did not succeed (no
\* connection, or a statement raised) does not go on to serve requests.
C20_StartupAborts ==
    [][\A p \in Workers :
          (pc'[p] = "idle" /\ req'[p].route = "check_and_init_database" /\ pc[p] # "idle") =>
              resp'[p].success]_vars

\* C21: when staff_verify returns success with a checkin_time, the registration
\* it targeted is stored as attended with that checkin_time, also when the
\* UPDATE failed inside execute_query.
C21_SuccessIsPersisted ==
    \A p \in Workers :
        (pc[p] = "done" /\ req[p].route = "staff_verify" /\ resp[p].success) =>
            \E r \in BagToSet(registrations) :
                /\ r.student_id = resp[p].student.id
                /\ r.event_id = resp[p].event.id
                /\ r.attended
                /\ r.checkin_time = resp[p].checkin_time

\* the text without the whitespace at its ends, and the places where its lines end
Stripped(text) == Strip(text)
Breaks(text) ==
    {0, Len(Stripped(text)) + 1} \cup {i \in 1..Len(Stripped(text)) : Stripped(text)[i] = NL}

\* the line that starts after break b
LineAfter(text, b) ==
    LET e == CHOOSE x \in Breaks(text) : x > b /\ \A y \in Breaks(text) : y > b => x <= y
    IN  SubSeq(Stripped(text), b + 1, e - 1)

\* line has a colon and the trimmed text before its first colon is key
HasKey(line, key) ==
    \E i \in 1..Len(line) :
        /\ line[i] = COLON
        /\ \A j \in 1..(i - 1) : line[j] # COLON
        /\ Strip(SubSeq(line, 1, i - 1)) = key

\* the whole of the line after its first colon, trimmed
ValueOf(line) ==
    LET i == CHOOSE k \in 1..Len(line) : line[k] = COLON /\ \A j \in 1..(k - 1) : line[j] # COLON
    IN  Strip(SubSeq(line, i + 1, Len(line)))

\* the value of the last line of the text that has the key, empty when none has
Lookup(text, key) ==
    LET starts == {b \in Breaks(text) : b <= Len(Stripped(text)) /\ HasKey(LineAfter(text, b), key)}
    IN  IF starts = {} THEN <<>>
        ELSE ValueOf(LineAfter(text, CHOOSE b \in starts : \A c \in starts : c <= b))

\* C22: the parser reads the text line by line, ignores lines without a colon,
\* splits the others at the first colon only, trims key and value, and lets the
\* last line of a key win; verify looks up the pair (value of 'Event', value of
\* 'Student ID'), so colons inside a value are kept and lines of other keys
\* change nothing.
C22_ParserResult ==
    [][\A p \in Workers :
          (pc[p] = "idle" /\ pc'[p] # "idle" /\ Authorised(req'[p].route, req'[p].session)
           /\ req'[p].qr_data # <<>>) =>
              LET event_title == Lookup(req'[p].qr_data, KeyEvent)
                  student_id_str == Lookup(req'[p].qr_data, KeyStudentID)
              IN  IF event_title = <<>> \/ student_id_str = <<>>
                  THEN pc'[p] = "done" /\ resp'[p] = Response(FALSE, MsgInvalidFormat)
                  ELSE /\ pc'[p] = "v_select_event"
                       /\ loc'[p].event_title = event_title
                       /\ loc'[p].student_id_str = student_id_str]_vars

C22_Witness ==
    \E p \in Workers :
        /\ pc[p] = "v_select_event"
        /\ req[p].qr_data =
               KeyEvent \o <<COLON, SP>> \o TitleTechTalk \o <<NL>>
               \o KeyEvent \o <<COLON, SP, "x", COLON, "y", NL>>
               \o KeyStudentID \o <<COLON, SP>> \o StudentAnn.student_id \o <<NL>>
        /\ loc[p].event_title = <<"x", COLON, "y">>
        /\ loc[p].student_id_str = StudentAnn.student_id

\* C23: verify resolves the event before the student: a well-formed credential
\* whose title matches no event is answered 'Event not found', and 'Student
\* not found' is answered only when the title matched an event.
C23_EventResolvedFirst ==
    \A p \in Workers :
        (pc[p] = "done" /\ req[p].route \in VerifyRoutes
         /\ Authorised(req[p].route, req[p].session)
         /\ ~InvalidFormat(QREventTitle(req[p].qr_data), QRStudentId(req[p].qr_data))) =>
            /\ EventsByTitle(QREventTitle(req[p].qr_data)) = {} =>
                   resp[p].message = MsgVEventNotFound
            /\ resp[p].message = MsgVStudentNotFound =>
                   EventsByTitle(QREventTitle(req[p].qr_data)) # {}

\* C24: a successful verify of the credential text issued for the registration
\* (S, E) marks that registration and changes no other one, also while
\* several events carry the title of E.
C24_VerifyMarksIssuedRow ==
    [][\A p \in Workers :
          (pc[p] = "v_update" /\ pc'[p] = "done" /\ resp'[p].success
           /\ \E r \in BagToSet(registrations) : r.qr_code_path = req[p].qr_data) =>
              \A r \in BagToSet(registrations) :
                  IF r.qr_code_path = req[p].qr_data
                  THEN \E q \in BagToSet(registrations') :
                           /\ q.student_id = r.student_id
                           /\ q.event_id = r.event_id
                           /\ q.attended
                  ELSE /\ r \in BagToSet(registrations')
                       /\ registrations'[r] = registrations[r]]_vars

\* C25: while the registration a credential was issued for exists and is not
\* attended, a verify of that credential text succeeds, whatever events the
\* administrator created or edited since it was issued.
C25_CredentialStaysVerifiable ==
    [][\A p \in Workers :
          (pc[p] # "done" /\ pc'[p] = "done" /\ req'[p].route \in VerifyRoutes
           /\ Authorised(req'[p].route, req'[p].session)
           /\ \E r \in BagToSet(registrations) :
                  r.qr_code_path = req'[p].qr_data /\ ~r.attended) =>
              resp'[p].success]_vars

\* C27: with requests executed one at a time, no event has more registrations
\* counted than its capacity, whatever create_event, edit_event,
\* register_event and delete_event requests were served.
C27_SerialCountWithinCapacity ==
    \A p \in Workers :
        pc[p] \in {"idle", "done"} =>
            \A e \in DOMAIN events : ~(events[e].capacity < events[e].registered_count)

\* C26: the checkin_time of a registration that is checked in does not change
\* while it stays checked in: neither verify nor mark_attendance with
\* attended = true overwrites it.
C26_CheckinTimeKept ==
    [][\A r \in BagToSet(registrations), q \in BagToSet(registrations') :
          (r.student_id = q.student_id /\ r.event_id = q.event_id
           /\ r.attended /\ q.attended) =>
              q.checkin_time = r.checkin_time]_vars

\* a registration row without its attendance fields
Unmarked(r) == [r EXCEPT !.attended = FALSE, !.checkin_time = None]

\* worker p takes a step of a verify route or of mark_attendance
AttendanceStep(p) ==
    /\ pc'[p] # pc[p]
    /\ req'[p].route \in VerifyRoutes \cup {"mark_attendance"}

\* C28: the verify routes and mark_attendance change only the attended and
\* checkin_time fields of at most one registration row: no row is created or
\* deleted, no event and no student changes, and mark_attendance for a pair
\* without a registration changes nothing.
C28_AttendanceFrame ==
    [][\A p \in Workers :
          AttendanceStep(p) =>
              /\ students' = students
              /\ events' = events
              /\ next_event_id' = next_event_id
              /\ BagCardinality(registrations') = BagCardinality(registrations)
              /\ {Unmarked(r) : r \in BagToSet(registrations')}
                     = {Unmarked(r) : r \in BagToSet(registrations)}
              /\ Cardinality(BagToSet(registrations) \ BagToSet(registrations')) <= 1
              /\ (pc[p] = "ma_update" /\ RegCount(loc[p].student.id, req[p].event_id) = 0) =>
                     store' = store]_vars

C28_Witness ==
    \E p \in Workers :
        /\ VerifyDone(p)
        /\ resp[p].success
        /\ \E r \in BagToSet(registrations) :
               /\ r.student_id = resp[p].student.id
               /\ r.event_id = resp[p].event.id
               /\ r.attended
        /\ \E r \in BagToSet(registrations) :
               /\ r.student_id # resp[p].student.id
               /\ r.event_id = resp[p].event.id
               /\ ~r.attended

\* the reason a response reports; the two wordings for a missing text are one reason
Reason(response) ==
    IF response.message \in {MsgNoQRData, MsgNoQRCodeData} THEN "no data"
    ELSE response.message

\* the outcome of verifying the text against the store, whatever the entry point
Outcome(text) ==
    LET event_title == QREventTitle(text)
        student_id_str == QRStudentId(text)
        student == SelectStudentByStudentId(student_id_str)
        matching == EventsByTitle(event_title)
    IN  IF text = <<>> THEN "no data"
        ELSE IF event_title = <<>> \/ student_id_str = <<>> THEN MsgInvalidFormat
        ELSE IF student = None THEN MsgVStudentNotFound
        ELSE IF matching = {} THEN MsgVEventNotFound
        ELSE LET rows == {r \in BagToSet(registrations) :
                              /\ r.student_id = student[1].id
                              /\ \E e \in matching : r.event_id = e.id}
             IN  IF rows = {} THEN MsgNotRegistered
                 ELSE IF \E r \in rows : r.attended THEN MsgAlreadyCheckedIn
                 ELSE MsgCheckedIn

HasRequiredKey(request) ==
    CASE request.route = "register_event" -> request.session.student_id # None
      [] request.route = "staff_verify" -> request.session.staff_id # None
      [] OTHER -> request.session.admin_id # None

WritingRoutes ==
    {"register_event", "create_event", "edit_event", "delete_event", "mark_attendance"}
        \cup VerifyRoutes

\* C30: a request without the session key of the role its route requires
\* returns at its first step and writes nothing to students, events or
\* registrations.
C30_NoKeyNoWrite ==
    [][\A p \in Workers :
          (pc'[p] # pc[p] /\ req'[p].route \in WritingRoutes /\ ~HasRequiredKey(req'[p])) =>
              /\ pc[p] = "idle"
              /\ pc'[p] = "done"
              /\ ~resp'[p].success
              /\ store' = store]_vars

C30_Witness ==
    \E p \in Workers :
        /\ pc[p] = "done"
        /\ req[p].route = "delete_event"
        /\ req[p].session = StaffSession
        /\ resp[p] = Response(FALSE, MsgAdminLogin)
        /\ 1 \in DOMAIN events
        /\ EventRegCount(1) > 0

====
